---------------------------- MODULE Spec2Model ----------------------------
(***************************************************************************)
(* Model of hypergraph_wireless.py: the Hypergraph edge store (level sets  *)
(* E[0..N] of sorted vertex tuples), the feasibility predicate             *)
(* isForbidden, the generator GenerateHypergraph and the analyzer          *)
(* interferenceDegree.                                                     *)
(*                                                                         *)
(* Representation.  A Python tuple or list is a TLA+ sequence.  The edge   *)
(* store self.E is a function from its keys 0..N to sequences of tuples    *)
(* (the order of a level list is kept).  A raised exception is the string  *)
(* naming it.  Real numbers are exact rationals: an energy is a pair       *)
(* <<num, den>>, a threshold beta is given in thousandths (beta = 0.25 is  *)
(* 250), a Delta weight is scaled by Scale(N) (see Delta).  Exponents are  *)
(* positive even integers, for which dist ** (-alpha) is the rational      *)
(* 1 / (dx^2 + dy^2) ^ (alpha / 2).                                        *)
(***************************************************************************)
EXTENDS Integers, Sequences, FiniteSets, TLC

VARIABLES
    S,          \* GenerateHypergraph's argument: the list of station locations
    alpha,      \* path loss exponent
    beta,       \* reception threshold, in thousandths
    predicate,  \* "isForbidden", or "table": the verdicts are read from oracle
    oracle,     \* under "table": the vertex sets the feasibility predicate forbids
    N,          \* H.numVertices
    E,          \* H.E: level k |-> list of edge tuples
    pc,         \* position of the running program
    k,          \* the level the generator's current loop is at
    iter,       \* the list object the loop `for W in H.getEdgesLevelSet(k)` walks
    idx,        \* position of that loop in iter (1-based)
    temp,       \* GenerateHypergraph's temp: the edges confirmed at level k
    tested,     \* history: the candidates tested so far, with their verdicts
    sigma,      \* what interferenceDegree returned, scaled by Scale(N)
    op,         \* the Hypergraph method called last (API runs)
    exc,        \* the exception that ended the run, or "none"
    out         \* number of error messages printed so far

vars == <<S, alpha, beta, predicate, oracle, N, E, pc, k, iter, idx, temp,
          tested, sigma, op, exc, out>>

----------------------------------------------------------------------------
(* Bounds of the model.                                                    *)

\* stations handed to GenerateHypergraph
MaxN == 4
\* stations when the verdicts come from an arbitrary table
MaxOracleN == 3
\* vertices of the hypergraphs interferenceDegree is applied to
MaxV == 3
\* vertices of the Hypergraph the methods are called on directly
MaxApiN == 2
\* edges in the store above which no further add call is made
MaxEdges == 3

\* The locations stations are drawn from (a list may repeat a location), the
\* exponents and the thresholds (0.0, 0.25, 0.5, 1.0).
Sites == { <<0, 0>>, <<2, 0>>, <<0, 2>>, <<2, 2>>, <<1, 0>> }
Alphas == {2, 4}
Betas == {0, 250, 500, 1000}

----------------------------------------------------------------------------
(* Python built-ins.                                                       *)

\* set(e)
Range(e) == { e[i] : i \in DOMAIN e }

\* x in L, for a list L
In(x, L) == \E i \in DOMAIN L : L[i] = x

\* max(e) of a non-empty sequence of integers
Max(e) == CHOOSE m \in Range(e) : \A x \in Range(e) : x <= m

\* every sequence over D of length 0..n
SeqsUpTo(D, n) == UNION { [1..m -> D] : m \in 0..n }

RECURSIVE Insert(_, _)
\* x put into the sorted sequence s, after the elements that are <= x
Insert(x, s) ==
    IF s = <<>> THEN <<x>>
    ELSE IF x < Head(s) THEN <<x>> \o s
    ELSE <<Head(s)>> \o Insert(x, Tail(s))

RECURSIVE sorted(_)
\* sorted(list(e))
sorted(e) == IF e = <<>> THEN <<>> ELSE Insert(e[Len(e)], sorted(SubSeq(e, 1, Len(e) - 1)))

RECURSIVE RemoveFirst(_, _)
\* L.remove(x) for an x that is in L: the first occurrence goes
RemoveFirst(L, x) ==
    IF L = <<>> THEN <<>>
    ELSE IF Head(L) = x THEN Tail(L)
    ELSE <<Head(L)>> \o RemoveFirst(Tail(L), x)

RECURSIVE combinationsFrom(_, _, _)
\* the r-combinations of lo..n, in itertools' (lexicographic) order
combinationsFrom(lo, n, r) ==
    IF r = 0 THEN << <<>> >>
    ELSE IF lo > n THEN <<>>
    ELSE LET with == combinationsFrom(lo + 1, n, r - 1)
         IN [i \in 1..Len(with) |-> <<lo>> \o with[i]]
                \o combinationsFrom(lo + 1, n, r)

\* list(itertools.combinations(range(1, n+1), r))
combinations(n, r) == combinationsFrom(1, n, r)

----------------------------------------------------------------------------
(* The feasibility predicate (isForbidden and its nested helpers).         *)

RECURSIVE Gcd(_, _)
Gcd(a, b) == IF b = 0 THEN a ELSE Gcd(b, a % b)

RECURSIVE Pow(_, _)
Pow(b, n) == IF n = 0 THEN 1 ELSE b * Pow(b, n - 1)

\* EuclidDist(si, sj) squared: the radicand of the math.sqrt
SqDist(si, sj) == (si[1] - sj[1]) * (si[1] - sj[1]) + (si[2] - sj[2]) * (si[2] - sj[2])

\* res + EuclidDist(w, s) ** (-a), for res = <<num, den>> in lowest terms and
\* w, s apart; a is even, so the power is 1 / SqDist ^ (a / 2)
AddTerm(res, w, s, a) ==
    LET d == Pow(SqDist(w, s), a \div 2)
        num == res[1] * d + res[2]
        den == res[2] * d
        g == Gcd(num, den)
    IN <<num \div g, den \div g>>

RECURSIVE Energy(_, _, _)
\* Energy(W2, s): the energy at s due to the stations in W2; the pair
\* <<1, 0>> stands for the ZeroDivisionError that 0.0 ** (-a), a > 0, raises
\* when a station of W2 is at s
Energy(W2, s, a) ==
    IF W2 = <<>> THEN <<0, 1>>
    ELSE LET res == Energy(SubSeq(W2, 1, Len(W2) - 1), s, a)
             w == W2[Len(W2)]
         IN IF res[2] = 0 \/ SqDist(w, s) = 0
            THEN <<1, 0>>
            ELSE AddTerm(res, w, s, a)

\* round(x, 3) of x = <<num, den>>, in thousandths (ties go to the even one)
round3(x) ==
    LET q == (1000 * x[1]) \div x[2]
        r == (1000 * x[1]) % x[2]
    IN IF 2 * r > x[2] THEN q + 1
       ELSE IF 2 * r = x[2] THEN q + (q % 2)
       ELSE q

RECURSIVE isForbiddenFrom(_, _, _, _)
\* the loop `for w in W` from its i-th pass on
isForbiddenFrom(i, W, a, b) ==
    IF i > Len(W) THEN "False"
    ELSE LET w == W[i]
             W_minus_w == RemoveFirst(W, w)
             e == Energy(W_minus_w, w, a)
         IN IF e[2] = 0 THEN "ZeroDivisionError"
            ELSE IF round3(e) >= b THEN "True"
            ELSE isForbiddenFrom(i + 1, W, a, b)

\* isForbidden(W, alpha, beta): "True", "False" or the exception it raises
isForbidden(W, a, b) == isForbiddenFrom(1, W, a, b)

----------------------------------------------------------------------------
(* class Hypergraph.  An object H is the record of its fields numVertices  *)
(* and E, with the exception a method raised on it (exc) and the number of *)
(* error messages its methods printed (out).                               *)

\* __init__
Hypergraph(n) ==
    [numVertices |-> n, E |-> [i \in 0..n |-> <<>>], exc |-> "none", out |-> 0]

\* addEdge(e): max(e) raises ValueError on an empty e, and self.E[k] raises
\* KeyError when k is not a key of the dictionary
addEdge(H, e) ==
    LET edge_tuple == sorted(e)
        kk == Len(edge_tuple)
    IN IF e = <<>> THEN [H EXCEPT !.exc = "ValueError"]
       ELSE LET printed == IF Max(e) > H.numVertices THEN 1 ELSE 0
            IN IF kk \notin DOMAIN H.E
               THEN [H EXCEPT !.exc = "KeyError", !.out = @ + printed]
               ELSE IF ~In(edge_tuple, H.E[kk])
                    THEN [H EXCEPT !.E[kk] = Append(@, edge_tuple), !.out = @ + printed]
                    ELSE [H EXCEPT !.out = @ + printed]

\* removeEdge(e)
removeEdge(H, e) ==
    LET edge_tuple == sorted(e)
        kk == Len(edge_tuple)
    IN IF kk \notin DOMAIN H.E THEN [H EXCEPT !.exc = "KeyError"]
       ELSE IF In(edge_tuple, H.E[kk])
            THEN [H EXCEPT !.E[kk] = RemoveFirst(@, edge_tuple)]
            ELSE H

RECURSIVE addEdges(_, _)
\* addEdges(F): the loop ends at the first addEdge that raises
addEdges(H, F) ==
    IF F = <<>> \/ H.exc # "none" THEN H
    ELSE addEdges(addEdge(H, Head(F)), Tail(F))

\* KeepNonSupersets with the subset test turned round (f.issubset(e))
KeepNonSubsets(level, e) ==
    SelectSeq(level, LAMBDA f : ~(Range(f) \subseteq Range(e)))

\* the list temp that removeSupersetsOf builds from one level set
KeepNonSupersets(level, e) ==
    SelectSeq(level, LAMBDA f : ~(Range(e) \subseteq Range(f)))

\* removeSupersetsOf starting one level too high: range(k+2, N+1)
removeSupersetsOfSkipLevel(H, e) ==
    LET kk == Len(e)
    IN [H EXCEPT !.E = [i \in DOMAIN H.E |->
                          IF i \in (kk + 2)..H.numVertices /\ Len(H.E[i]) >= 1
                          THEN SelectSeq(H.E[i], LAMBDA f : ~(Range(e) \subseteq Range(f)))
                          ELSE H.E[i]]]

\* removeSupersetsOf starting at e's own level: range(k, N+1)
removeSupersetsOfOwnLevel(H, e) ==
    LET kk == Len(e)
    IN [H EXCEPT !.E = [i \in DOMAIN H.E |->
                          IF i \in kk..H.numVertices /\ Len(H.E[i]) >= 1
                          THEN SelectSeq(H.E[i], LAMBDA f : ~(Range(e) \subseteq Range(f)))
                          ELSE H.E[i]]]

RECURSIVE RemoveWhileIterating(_, _, _)
\* `for f in L: if e <= f: L.remove(f)` from position i on: each removal
\* moves the rest of the list under the iterator, which skips one element
RemoveWhileIterating(L, i, e) ==
    IF i > Len(L) THEN L
    ELSE IF Range(e) \subseteq Range(L[i])
         THEN RemoveWhileIterating(SubSeq(L, 1, i - 1) \o SubSeq(L, i + 1, Len(L)), i + 1, e)
         ELSE RemoveWhileIterating(L, i + 1, e)

\* removeSupersetsOf without the list temp: it removes from the level list
\* it is iterating on
removeSupersetsOfInPlace(H, e) ==
    LET kk == Len(e)
    IN [H EXCEPT !.E = [i \in DOMAIN H.E |->
                          IF i \in (kk + 1)..H.numVertices /\ Len(H.E[i]) >= 1
                          THEN RemoveWhileIterating(H.E[i], 1, e)
                          ELSE H.E[i]]]

\* removeSupersetsOf(e)
removeSupersetsOf(H, e) ==
    LET kk == Len(e)
    IN [H EXCEPT !.E = [i \in DOMAIN H.E |->
                          IF i \in (kk + 1)..H.numVertices /\ Len(H.E[i]) >= 1
                          THEN KeepNonSupersets(H.E[i], e)
                          ELSE H.E[i]]]

\* setLevelSet that leaves the level as it is
setLevelSetKeepsLevel(H, kk, F) == H

\* setLevelSet(k, F)
setLevelSet(H, kk, F) ==
    [H EXCEPT !.E = [i \in DOMAIN H.E \cup {kk} |-> IF i = kk THEN F ELSE H.E[i]]]

\* getEdgesLevelSet(k)
getEdgesLevelSet(H, kk) == H.E[kk]

\* getNumEdges()
getNumEdges(H) ==
    LET RECURSIVE Sum(_)
        Sum(i) == IF i > H.numVertices THEN 0 ELSE Len(H.E[i]) + Sum(i + 1)
    IN Sum(0)

\* isIndependentSet that stops one level short: range(1, k)
isIndependentSetShortRange(H, J) ==
    \A i \in 1..(Cardinality(J) - 1) :
        \A x \in 1..Len(H.E[i]) : ~(Range(H.E[i][x]) \subseteq J)

\* isIndependentSet(J), for J given as the set of its (distinct) elements
isIndependentSet(H, J) ==
    \A i \in 1..Cardinality(J) :
        \A x \in 1..Len(H.E[i]) : ~(Range(H.E[i][x]) \subseteq J)

RECURSIVE Factorial(_)
Factorial(n) == IF n <= 1 THEN 1 ELSE n * Factorial(n - 1)

\* The weights 1.0/(len(e)-1) are kept as integers: the weight w is held as
\* w * Scale(N), which every len(e)-1 < N divides.
Scale(n) == Factorial(n - 1)

\* list(itertools.combinations(e, 2))
pairsOf(e) ==
    LET ix == combinations(Len(e), 2)
    IN [x \in 1..Len(ix) |-> <<e[ix[x][1]], e[ix[x][2]]>>]

\* the larger of two numbers
max2(a, b) == IF a >= b THEN a ELSE b

\* every edge of the store, level 0 first (the loops of lines 285-286)
edgeList(H) ==
    LET RECURSIVE From(_)
        From(i) == IF i > H.numVertices THEN <<>> ELSE H.E[i] \o From(i + 1)
    IN From(0)

RECURSIVE DeltaPairs(_, _, _, _)
\* lines 288-290 for the pairs ps of the edge e
DeltaPairs(D, ps, e, n) ==
    IF ps = <<>> THEN D
    ELSE LET i == ps[1][1]
             j == ps[1][2]
             D1 == [D EXCEPT ![i][j] = max2(D[i][j], Scale(n) \div (Len(e) - 1))]
             D2 == [D1 EXCEPT ![j][i] = D1[i][j]]
         IN DeltaPairs(D2, Tail(ps), e, n)

RECURSIVE DeltaEdges(_, _, _)
\* the loop of line 286 over the edges es
DeltaEdges(D, es, n) ==
    IF es = <<>> THEN D
    ELSE DeltaEdges(DeltaPairs(D, pairsOf(Head(es)), Head(es), n), Tail(es), n)

\* Delta(): the matrix, with Delta[i][j] for the code's Delta[i-1][j-1]
Delta(H) ==
    DeltaEdges([i \in 1..H.numVertices |-> [j \in 1..H.numVertices |-> 0]],
               edgeList(H), H.numVertices)

RECURSIVE AdjPairs(_, _)
\* lines 303-307 for the pairs ps of an edge
AdjPairs(Adj, ps) ==
    IF ps = <<>> THEN Adj
    ELSE LET i == ps[1][1]
             j == ps[1][2]
             A1 == IF ~In(i, Adj[j]) THEN [Adj EXCEPT ![j] = Append(@, i)] ELSE Adj
             A2 == IF ~In(j, A1[i]) THEN [A1 EXCEPT ![i] = Append(@, j)] ELSE A1
         IN AdjPairs(A2, Tail(ps))

RECURSIVE AdjEdges(_, _)
AdjEdges(Adj, es) ==
    IF es = <<>> THEN Adj ELSE AdjEdges(AdjPairs(Adj, pairsOf(Head(es))), Tail(es))

\* AdjacencyList()
AdjacencyList(H) == AdjEdges([i \in 1..H.numVertices |-> <<>>], edgeList(H))

\* list(powerset(xs)): the combinations of xs of size 0, 1, ..., len(xs)
powerset(xs) ==
    LET bySize(r) ==
            LET ix == combinations(Len(xs), r)
            IN [x \in 1..Len(ix) |-> [y \in 1..r |-> xs[ix[x][y]]]]
        RECURSIVE From(_)
        From(r) == IF r > Len(xs) THEN <<>> ELSE bySize(r) \o From(r + 1)
    IN From(0)

RECURSIVE sumDelta(_, _, _)
\* the loops `for j in J: s += Delta[i-1][j-1]` from the start value s
sumDelta(D, i, J) ==
    IF J = <<>> THEN 0 ELSE D[i][Head(J)] + sumDelta(D, i, Tail(J))

RECURSIVE subsetLoop(_, _, _, _, _)
\* the loop of lines 327-340 over the subsets Ks of Adj[i]; acc is
\* <<Delta_i_p, Delta_i_pp>>
subsetLoop(H, D, i, Ks, acc) ==
    IF Ks = <<>> THEN acc
    ELSE LET J == Head(Ks)
             p == IF Len(J) >= 1 /\ isIndependentSet(H, Range(J))
                  THEN max2(acc[1], sumDelta(D, i, J))
                  ELSE acc[1]
             pp == IF Len(J) >= 1 /\ isIndependentSet(H, Range(J) \cup {i})
                   THEN max2(acc[2], Scale(H.numVertices) + sumDelta(D, i, J))
                   ELSE acc[2]
         IN subsetLoop(H, D, i, Tail(Ks), <<p, pp>>)

RECURSIVE vertexLoop(_, _, _, _, _)
\* the loop of line 322 from vertex i on, res so far
vertexLoop(H, D, Adj, i, res) ==
    IF i > H.numVertices THEN res
    ELSE LET acc == subsetLoop(H, D, i, powerset(Adj[i]), <<0, 0>>)
         IN vertexLoop(H, D, Adj, i + 1, max2(max2(res, acc[1]), acc[2]))

\* interferenceDegree(), times Scale(N)
interferenceDegree(H) == vertexLoop(H, Delta(H), AdjacencyList(H), 1, 0)

\* the object H of the current state
Self == [numVertices |-> N, E |-> E, exc |-> exc, out |-> out]

\* H is the object after the step; an exception ends the run
Becomes(H) ==
    /\ N' = H.numVertices
    /\ E' = H.E
    /\ exc' = H.exc
    /\ out' = H.out

----------------------------------------------------------------------------
(* GenerateHypergraph(S, alpha, beta).  Positions: "populate" is the loop  *)
(* of line 380, "level" the head of the loop of line 384, "test" the loop  *)
(* of line 387 over the level list, "returned" and "raised" the two ends.  *)

\* [H.getLocation(w) for w in W]
stationsW(W) == [i \in 1..Len(W) |-> S[W[i]]]

\* the verdict of the feasibility predicate on candidate W
Verdict(W) ==
    IF predicate = "isForbidden" THEN isForbidden(stationsW(W), alpha, beta)
    ELSE IF Range(W) \in oracle THEN "True" ELSE "False"

\* lines 374-377: H = Hypergraph(N), the locations stored
Started(n) ==
    /\ N = n
    /\ E = Hypergraph(n).E
    /\ exc = "none"
    /\ out = 0
    /\ pc = "populate"
    /\ k = 2
    /\ iter = <<>>
    /\ idx = 1
    /\ temp = <<>>
    /\ tested = <<>>
    /\ sigma = 0
    /\ op = "GenerateHypergraph"

\* a call GenerateHypergraph(S, alpha, beta)
Init ==
    /\ S \in SeqsUpTo(Sites, MaxN)
    /\ alpha \in Alphas
    /\ beta \in Betas
    /\ predicate = "isForbidden"
    /\ oracle = {}
    /\ Started(Len(S))

\* the subsets of 1..n with two or more elements
Candidates(n) == { W \in SUBSET (1..n) : Cardinality(W) >= 2 }

\* the same call with the verdicts of the feasibility predicate taken from an
\* arbitrary table over the candidates
InitOracle ==
    /\ \E n \in 0..MaxOracleN : S = [i \in 1..n |-> <<i, 0>>]
    /\ alpha = 2
    /\ beta = 1000
    /\ predicate = "table"
    /\ oracle \in SUBSET Candidates(Len(S))
    /\ Started(Len(S))

\* one pass of the loop of lines 380-381
Populate ==
    /\ pc = "populate"
    /\ k <= N
    /\ Becomes(addEdges(Self, combinations(N, k)))
    /\ k' = k + 1
    /\ UNCHANGED <<S, alpha, beta, predicate, oracle, pc, iter, idx, temp, tested, sigma, op>>

\* the loop of line 380 ends, the loop of line 384 starts
StartPruning ==
    /\ pc = "populate"
    /\ k > N
    /\ pc' = "level"
    /\ k' = 2
    /\ UNCHANGED <<S, alpha, beta, predicate, oracle, N, E, iter, idx, temp, tested, sigma, op, exc, out>>

\* lines 385 and 387: temp = [], the iteration over the level list starts
BeginLevel ==
    /\ pc = "level"
    /\ k <= N
    /\ temp' = <<>>
    /\ iter' = getEdgesLevelSet(Self, k)
    /\ idx' = 1
    /\ pc' = "test"
    /\ UNCHANGED <<S, alpha, beta, predicate, oracle, N, E, k, tested, sigma, op, exc, out>>

\* TestCandidate without the call of line 393
TestCandidateNoPruning ==
    /\ pc = "test"
    /\ idx <= Len(iter)
    /\ LET W == iter[idx]
           v == Verdict(W)
       IN /\ tested' = Append(tested, [W |-> W, verdict |-> v])
          /\ IF v = "ZeroDivisionError"
             THEN /\ exc' = v
                  /\ pc' = "raised"
                  /\ UNCHANGED <<N, E, out, temp, idx>>
             ELSE IF v = "True"
             THEN /\ temp' = Append(temp, W)
                  /\ idx' = idx + 1
                  /\ UNCHANGED <<N, E, exc, out, pc>>
             ELSE /\ idx' = idx + 1
                  /\ UNCHANGED <<N, E, exc, out, temp, pc>>
    /\ UNCHANGED <<S, alpha, beta, predicate, oracle, k, iter, sigma, op>>

\* lines 388-393: one pass of the loop over the level list
TestCandidate ==
    /\ pc = "test"
    /\ idx <= Len(iter)
    /\ LET W == iter[idx]
           v == Verdict(W)
       IN /\ tested' = Append(tested, [W |-> W, verdict |-> v])
          /\ IF v = "ZeroDivisionError"
             THEN /\ exc' = v
                  /\ pc' = "raised"
                  /\ UNCHANGED <<N, E, out, temp, idx>>
             ELSE IF v = "True"
             THEN /\ temp' = Append(temp, W)
                  /\ Becomes(removeSupersetsOf(Self, W))
                  /\ idx' = idx + 1
                  /\ pc' = pc
             ELSE /\ idx' = idx + 1
                  /\ UNCHANGED <<N, E, exc, out, temp, pc>>
    /\ UNCHANGED <<S, alpha, beta, predicate, oracle, k, iter, sigma, op>>

\* line 394: H.setLevelSet(k, temp), and on to the next level
EndLevel ==
    /\ pc = "test"
    /\ idx > Len(iter)
    /\ Becomes(setLevelSet(Self, k, temp))
    /\ k' = k + 1
    /\ pc' = "level"
    /\ UNCHANGED <<S, alpha, beta, predicate, oracle, iter, idx, temp, tested, sigma, op>>

\* line 398: return H
Return ==
    /\ pc = "level"
    /\ k > N
    /\ pc' = "returned"
    /\ UNCHANGED <<S, alpha, beta, predicate, oracle, N, E, k, iter, idx, temp, tested, sigma, op, exc, out>>

Next == Populate \/ StartPruning \/ BeginLevel \/ TestCandidate \/ EndLevel \/ Return

Spec == Init /\ [][Next]_vars

SpecOracle == InitOracle /\ [][Next]_vars

----------------------------------------------------------------------------
(* The methods of a Hypergraph(N) called directly, in any order and with   *)
(* any argument.  Position "api": the object is built and no call is       *)
(* running; an exception a method raises ends the run ("raised").          *)

\* the arguments e of a call: every sequence of up to n+1 ids from 0..n+1
EdgeArgs(n) == SeqsUpTo(0..(n + 1), n + 1)

\* Hypergraph(n) for some n
InitApi ==
    /\ N \in 0..MaxApiN
    /\ E = Hypergraph(N).E
    /\ exc = "none"
    /\ out = 0
    /\ pc = "api"
    /\ op = "Hypergraph"
    /\ S = <<>>
    /\ alpha = 2
    /\ beta = 1000
    /\ predicate = "isForbidden"
    /\ oracle = {}
    /\ k = 0
    /\ iter = <<>>
    /\ idx = 1
    /\ temp = <<>>
    /\ tested = <<>>
    /\ sigma = 0

\* the object a call starts on: out counts the messages of that call
Receiver == [Self EXCEPT !.out = 0]

\* the state after the call of method m that leaves the object as H
Called(m, H) ==
    /\ pc = "api"
    /\ Becomes(H)
    /\ op' = m
    /\ pc' = IF H.exc = "none" THEN "api" ELSE "raised"
    /\ UNCHANGED <<S, alpha, beta, predicate, oracle, k, iter, idx, temp, tested, sigma>>

\* H.addEdge(e)
CallAddEdge(e) ==
    /\ getNumEdges(Self) < MaxEdges
    /\ Called("addEdge", addEdge(Receiver, e))

\* H.addEdges(itertools.combinations(range(1, N+1), r)), the way
\* GenerateHypergraph calls it
CallAddEdges(r) ==
    /\ getNumEdges(Self) < MaxEdges
    /\ Called("addEdges", addEdges(Receiver, combinations(N, r)))

\* H.removeEdge(e)
CallRemoveEdge(e) == Called("removeEdge", removeEdge(Receiver, e))

\* H.removeSupersetsOf(e)
CallRemoveSupersetsOf(e) == Called("removeSupersetsOf", removeSupersetsOf(Receiver, e))

NextApi ==
    \/ \E e \in EdgeArgs(N) : CallAddEdge(e)
    \/ \E r \in 0..(N + 1) : CallAddEdges(r)
    \/ \E e \in EdgeArgs(N) : CallRemoveEdge(e)
    \/ \E e \in EdgeArgs(N) : CallRemoveSupersetsOf(e)

SpecApi == InitApi /\ [][NextApi]_vars

----------------------------------------------------------------------------
(* interferenceDegree applied to a hypergraph: any family of non-empty     *)
(* subsets of 1..N, each level list in the order of itertools.combinations.*)

\* the store holding the family F
StoreOf(n, F) ==
    [i \in 0..n |-> SelectSeq(combinations(n, i), LAMBDA t : Range(t) \in F)]

InitDegree ==
    /\ N \in 0..MaxV
    /\ \E F \in SUBSET ((SUBSET (1..N)) \ {{}}) : E = StoreOf(N, F)
    /\ exc = "none"
    /\ out = 0
    /\ pc = "built"
    /\ op = "Hypergraph"
    /\ S = <<>>
    /\ alpha = 2
    /\ beta = 1000
    /\ predicate = "isForbidden"
    /\ oracle = {}
    /\ k = 0
    /\ iter = <<>>
    /\ idx = 1
    /\ temp = <<>>
    /\ tested = <<>>
    /\ sigma = 0

\* sigma = H.interferenceDegree()
Analyze ==
    /\ pc = "built"
    /\ sigma' = interferenceDegree(Self)
    /\ op' = "interferenceDegree"
    /\ pc' = "analyzed"
    /\ UNCHANGED <<S, alpha, beta, predicate, oracle, N, E, k, iter, idx, temp, tested, exc, out>>

NextDegree == Analyze

SpecDegree == InitDegree /\ [][NextDegree]_vars

----------------------------------------------------------------------------
(* Properties of GenerateHypergraph.                                       *)

\* the edges of the store, as a set of tuples
Edges == UNION { Range(E[i]) : i \in DOMAIN E }

\* the candidates found forbidden so far
Confirmed == { tested[a].W : a \in { b \in DOMAIN tested : tested[b].verdict = "True" } }

RECURSIVE TupleOf(_)
\* the sorted tuple of a set of vertices
TupleOf(W) ==
    IF W = {} THEN <<>>
    ELSE LET m == CHOOSE x \in W : \A y \in W : y <= x
         IN Append(TupleOf(W \ {m}), m)

\* the sorted tuples of the subsets of 1..n
VertexTuples(n) == { TupleOf(W) : W \in SUBSET (1..n) }

\* tuple e without its i-th vertex
Without(e, i) == SubSeq(e, 1, i - 1) \o SubSeq(e, i + 1, Len(e))

\* the feasibility predicate forbids the vertex set W
Forbidden(W) == Verdict(TupleOf(W)) = "True"

\* W is forbidden and no proper subset of W is
MinimalForbidden(W) ==
    /\ Forbidden(W)
    /\ \A U \in (SUBSET W) \ {W} : ~Forbidden(U)

\* C1 (minimality): in the hypergraph GenerateHypergraph returns, no edge is a
\* proper superset of another edge.
C1_Minimality ==
    pc = "returned" =>
        \A e \in Edges, f \in Edges :
            ~(Range(e) \subseteq Range(f) /\ Range(e) # Range(f))

\* a returned hypergraph with edges of two sizes
C1_Witness ==
    /\ pc = "returned"
    /\ \E e \in Edges, f \in Edges : Len(e) < Len(f)

\* C2 (soundness): with a positive threshold, every edge of the returned
\* hypergraph is forbidden (isForbidden is true on its locations), and
\* isForbidden is false on its locations with any one vertex removed.
C2_Soundness ==
    (pc = "returned" /\ beta > 0) =>
        \A e \in Edges :
            /\ isForbidden(stationsW(e), alpha, beta) = "True"
            /\ \A i \in 1..Len(e) :
                   isForbidden(stationsW(Without(e, i)), alpha, beta) = "False"

\* a returned hypergraph, threshold positive, with an edge of three or more
\* stations
C2_Witness ==
    /\ pc = "returned"
    /\ beta > 0
    /\ \E e \in Edges : Len(e) >= 3

\* C3 (completeness): for every subset W of 1..N, W is an edge of the returned
\* hypergraph (its sorted tuple is in E[|W|]) if and only if W is forbidden
\* and no proper subset of W is, whatever the feasibility predicate forbids
\* among the sets of two or more stations; and the store holds nothing else.
C3_Completeness ==
    pc = "returned" =>
        /\ \A W \in SUBSET (1..N) :
               In(TupleOf(W), E[Cardinality(W)]) <=> MinimalForbidden(W)
        /\ \A i \in DOMAIN E : \A e \in Range(E[i]) :
               e = TupleOf(Range(e)) /\ Len(e) = i

\* a returned hypergraph for a predicate that is not monotone: it forbids
\* the edge U and does not forbid the superset W of U
C3_Witness ==
    /\ pc = "returned"
    /\ predicate = "table"
    /\ \E U \in oracle, W \in Candidates(N) :
          U \subseteq W /\ W \notin oracle /\ TupleOf(U) \in Edges

\* C6 (idempotent pruning): in every state of the store and for every vertex
\* tuple e, edge or not, removeSupersetsOf(e) called twice in a row leaves
\* every level list (contents and order) as the first call left it.
C6_Idempotent ==
    \A e \in VertexTuples(N) :
        removeSupersetsOf(removeSupersetsOf(Self, e), e).E = removeSupersetsOf(Self, e).E

\* the same under SpecApi, with every argument of EdgeArgs
C6_IdempotentApi ==
    \A e \in EdgeArgs(N) :
        removeSupersetsOf(removeSupersetsOf(Self, e), e).E = removeSupersetsOf(Self, e).E

\* the generator has just pruned the store, and there is an e for which a
\* further call still removes an edge
C6_Witness ==
    /\ pc = "test"
    /\ temp # <<>>
    /\ \E j \in (k + 1)..N : Len(E[j]) < Len(combinations(N, j))
    /\ \E e \in VertexTuples(N) : removeSupersetsOf(Self, e) # Self

\* C8 (pruning order): the supersets of a confirmed edge leave the store in
\* the step that confirms it; so no confirmed edge is a subset of the
\* candidate about to be tested, no superset of a confirmed edge is tested
\* after it, and none is an edge of the returned hypergraph.
C8_PruningOrder ==
    /\ \A c \in Confirmed : \A f \in Edges :
           ~(Range(c) \subseteq Range(f) /\ Range(c) # Range(f))
    /\ (pc = "test" /\ idx <= Len(iter)) =>
           \A c \in Confirmed : ~(Range(c) \subseteq Range(iter[idx]))
    /\ \A a \in DOMAIN tested, b \in DOMAIN tested :
           (a < b /\ tested[a].verdict = "True") =>
               ~(Range(tested[a].W) \subseteq Range(tested[b].W))
    /\ pc = "returned" =>
           \A c \in Confirmed : \A f \in Edges : Range(c) \subseteq Range(f) => f = c

\* a candidate of three or more stations is about to be tested, after edges
\* were confirmed and candidates of its level were pruned
C8_Witness ==
    /\ pc = "test"
    /\ idx <= Len(iter)
    /\ k >= 3
    /\ Confirmed # {}
    /\ Len(iter) < Len(combinations(N, k))

\* tuple t is sorted and its elements are pairwise distinct
StrictlyIncreasing(t) == \A i \in 1..(Len(t) - 1) : t[i] < t[i + 1]

\* no level list holds a tuple with a vertex id outside 1..N
StoreInRange == \A e \in Edges : Range(e) \subseteq 1..N

\* e contains a vertex id outside 1..N
HasBadVertex(e) == ~(Range(e) \subseteq 1..N)

\* C4 (malformed edge): addEdge(e) with a vertex id of e outside 1..N, on a
\* store that holds no such id, prints an error message, raises nothing and
\* leaves the store without such an id.
C4_BadVertexRejected ==
    [][ \A e \in EdgeArgs(N) :
            (HasBadVertex(e) /\ StoreInRange /\ CallAddEdge(e)) =>
                (out' >= 1 /\ exc' = "none" /\ StoreInRange')
      ]_vars

\* C5 (level-set invariant): every element of E[k] is a sorted tuple of
\* exactly k pairwise distinct vertices of 1..N, and no tuple occurs twice in
\* E[k].
C5_LevelSetInvariant ==
    \A i \in DOMAIN E :
        /\ \A j \in 1..Len(E[i]) :
               /\ Len(E[i][j]) = i
               /\ StrictlyIncreasing(E[i][j])
               /\ Range(E[i][j]) \subseteq 1..N
        /\ \A j1 \in 1..Len(E[i]), j2 \in 1..Len(E[i]) :
               E[i][j1] = E[i][j2] => j1 = j2

\* C9 (removeEdge): removeEdge(e), for e in any order, raises nothing; if
\* sorted(e) is in E[|e|] it removes that tuple and nothing else, and if not
\* (also when |e| > N) it leaves every level list as it is.
C9_RemoveEdgeFrame ==
    [][ \A e \in EdgeArgs(N) :
            CallRemoveEdge(e) =>
                /\ exc' = "none"
                /\ pc' = "api"
                /\ E' = [i \in DOMAIN E |->
                            IF i = Len(e)
                            THEN SelectSeq(E[i], LAMBDA f : f # sorted(e))
                            ELSE E[i]]
      ]_vars

\* the largest element of a non-empty finite set of numbers
MaxOf(X) == CHOOSE m \in X : \A x \in X : x <= m

RECURSIVE SumOver(_, _, _)
\* the sum of f[i][j] over j in J
SumOver(f, i, J) ==
    IF J = {} THEN 0
    ELSE LET j == CHOOSE x \in J : TRUE
         IN f[i][j] + SumOver(f, i, J \ {j})

\* Delta(i, j): the largest 1/(|e|-1) over the edges e containing both i and
\* j, and 0 if there is none (times Scale(N))
DeltaOf ==
    [i \in 1..N |-> [j \in 1..N |->
        MaxOf({0} \cup { Scale(N) \div (Len(e) - 1) :
                           e \in { f \in Edges : i # j /\ {i, j} \subseteq Range(f) } })]]

\* the vertices that share an edge with i
NeighborsOf(i) == { j \in (1..N) \ {i} : \E e \in Edges : {i, j} \subseteq Range(e) }

\* J contains no edge
Independent(J) == \A e \in Edges : ~(Range(e) \subseteq J)

\* Delta'(i)
DeltaPrime(i) ==
    MaxOf({0} \cup { SumOver(DeltaOf, i, J) :
                       J \in { K \in (SUBSET NeighborsOf(i)) \ {{}} : Independent(K) } })

\* Delta''(i)
DeltaDoublePrime(i) ==
    MaxOf({0} \cup { Scale(N) + SumOver(DeltaOf, i, J) :
                       J \in { K \in (SUBSET NeighborsOf(i)) \ {{}} : Independent(K \cup {i}) } })

\* C7 (interference degree): interferenceDegree returns the maximum over the
\* vertices i of max(Delta'(i), Delta''(i)), each maximum being 0 when no
\* non-empty J qualifies; so it returns 0 on a hypergraph without edges.
C7_InterferenceDegree ==
    pc = "analyzed" =>
        /\ sigma = MaxOf({0} \cup { max2(DeltaPrime(i), DeltaDoublePrime(i)) : i \in 1..N })
        /\ Edges = {} => sigma = 0

\* the degree of a hypergraph in which two vertices share edges of two sizes
\* and some vertex has an independent set of two neighbours
C7_Witness ==
    /\ pc = "analyzed"
    /\ \E e \in Edges, f \in Edges :
          Len(e) < Len(f) /\ Cardinality(Range(e) \cap Range(f)) >= 2
    /\ \E i \in 1..N : \E J \in SUBSET NeighborsOf(i) :
          Cardinality(J) >= 2 /\ Independent(J)

\* the edges confirmed at level j, in the order they were tested
ConfirmedAt(j) ==
    LET hits == SelectSeq(tested, LAMBDA t : t.verdict = "True" /\ Len(t.W) = j)
    IN [i \in 1..Len(hits) |-> hits[i].W]

\* the levels below k are finished: each holds the edges confirmed at it
FinishedLevels ==
    pc \in {"level", "test", "returned"} =>
        \A j \in 2..(k - 1) : E[j] = ConfirmedAt(j)

\* C10 (finished levels are final): while level k is processed and after it
\* no level below k changes, E[0] and E[1] stay empty, the list being iterated
\* is E[k] and does not change during its iteration, and a level replaced by
\* its confirmed edges keeps that value up to the return.
C10_FinishedLevelsFinal ==
    [][ /\ pc \in {"level", "test"} =>
            \A j \in 0..(k - 1) : j \in DOMAIN E => E'[j] = E[j]
        /\ (pc = "test" /\ pc' = "test") =>
            (E[k] = iter /\ E'[k] = E[k] /\ iter' = iter)
        /\ \A j \in {0, 1} \cap DOMAIN E : E'[j] = <<>>
        /\ FinishedLevels'
      ]_vars

\* level 3 or higher is being processed, an edge was just confirmed at it,
\* and level 2 is finished with an edge
C10_Witness ==
    /\ pc = "test"
    /\ k >= 3
    /\ temp # <<>>
    /\ E[2] # <<>>
====
